---- MODULE Spec2Model ----
(***************************************************************************)
(* Model of RustafarianDrone (src/src/lib.rs): one node of a simulated     *)
(* packet-switched mesh.  A drone owns a command channel (controller_recv),*)
(* a packet channel (packet_recv), a Channel Registry (neighbors), a Flood *)
(* Memory (flood_requests), a drop probability (pdr) and a crashed flag.   *)
(* Its run() loop takes one item per iteration with select_biased!, the    *)
(* command channel first.                                                  *)
(*                                                                         *)
(* Spec     : one drone (Me) driven by an arbitrary bounded environment:   *)
(*            the controller sends any command, neighbours send any packet *)
(*            of a small universe, neighbours may terminate.               *)
(* NetSpec  : a triangle of three drones plus one client; the client       *)
(*            starts one flood round and the controller wires the links.   *)
(***************************************************************************)
EXTENDS Integers, Sequences, FiniteSets, TLC

\* ---------------------------------------------------------------- bounds
MaxPktQ == 1      \* packets the environment keeps pending on Me's packet channel
MaxCmdQ == 1      \* commands the controller keeps pending on a command channel
MaxTrace == 5     \* longest path trace a flood request is still handled with

\* ------------------------------------------------------------- topology
Client == 0
Me == 1
Drones == {1, 2, 3}
Nodes == {Client} \cup Drones
\* undirected links of the simulated network: the client hangs off drone 1,
\* the three drones form a cycle
Links == {{0, 1}, {1, 2}, {1, 3}, {2, 3}}
Adjacent(n) == {m \in Nodes : {n, m} \in Links}

VARIABLES
    status,           \* per node: "running" (inside run), "crashed" (run left by
                      \* break), "panicked" (run left by a panic), "foreign"
                      \* (a node that does not run this code)
    pdr,              \* per node: drop probability, in percent
    neighbors,        \* per node: keys of the Channel Registry
    flood_requests,   \* per node: Flood Memory
    crashed,          \* per node: the crashed field
    controller_recv,  \* per node: commands pending on the command channel
    controller_open,  \* per node: the controller still holds the command sender
    packet_recv,      \* per node: packets pending on the packet channel
    rx_closed,        \* nodes whose packet receiver has been dropped
    handled,          \* per node: flood ids of the flood requests it has handled
    lastOp            \* the last iteration of a run loop: who, what, what was sent

vars == <<status, pdr, neighbors, flood_requests, crashed, controller_recv,
          controller_open, packet_recv, rx_closed, handled, lastOp>>

\* -------------------------------------------------------------- packets
\* wg_2024 Packet{pack_type, session_id, routing_header{hop_index, hops}};
\* flood_id and path_trace are the payload of FloodRequest / FloodResponse.
Packet(t, sid, hi, hs, fid, pt) ==
    [pack_type |-> t, session_id |-> sid, hop_index |-> hi, hops |-> hs,
     flood_id |-> fid, path_trace |-> pt]

NoPacket == Packet("None", 0, 0, <<>>, 0, <<>>)
NoCommand == [type |-> "None", arg |-> 0]

Last(s) == s[Len(s)]

RECURSIVE Reverse(_)
Reverse(s) == IF s = <<>> THEN <<>> ELSE Append(Reverse(Tail(s)), Head(s))

\* path_trace.into_iter().map(|node| node.0).collect()
TraceIds(pt) == [i \in 1..Len(pt) |-> pt[i][1]]

\* ------------------------------------------------------------- commands
AddSender(m) == [type |-> "AddSender", arg |-> m]
SetPacketDropRate(p) == [type |-> "SetPacketDropRate", arg |-> p]
Crash == [type |-> "Crash", arg |-> 0]

\* drop rates the controller sends: one outside [0, 100]
DropRates == {150}
\* the pdr of DroneOptions
InitialPdr == 0

\* ----------------------------------------------------- handle_flood_req
\* What one call of a handler does besides changing the drone's own fields:
\* the sends it attempts (to: the registry key whose channel is used) and
\* whether it panics.
Effect(outs, panic) == [outs |-> outs, panic |-> panic]

FloodResponseFromZero(n, pkt) ==
    LET trace == Append(pkt.path_trace, <<n, "Drone">>)
    IN  Packet("FloodResponse", pkt.session_id, 0, Reverse(TraceIds(trace)),
               pkt.flood_id, trace)

FloodResponseStaleTrace(n, pkt) ==
    LET trace == Append(pkt.path_trace, <<n, "Drone">>)
    IN  Packet("FloodResponse", pkt.session_id, 1, Reverse(TraceIds(trace)),
               pkt.flood_id, pkt.path_trace)

\* lines 157-194: the flood id is in Flood Memory
FloodResponseFor(n, pkt) ==
    LET trace == Append(pkt.path_trace, <<n, "Drone">>)
    IN  Packet("FloodResponse", pkt.session_id, 1, Reverse(TraceIds(trace)),
               pkt.flood_id, trace)

SeenBranchUnwraps(n, pkt) ==
    IF pkt.path_trace = <<>>
    THEN Effect({}, TRUE)
    ELSE LET sender_id == Last(pkt.path_trace)[1]
         IN  IF sender_id \in neighbors[n]
             THEN Effect({[to |-> sender_id, pkt |-> FloodResponseFor(n, pkt)]},
                         sender_id \in rx_closed)
             ELSE Effect({}, TRUE)

SeenBranch(n, pkt) ==
    IF pkt.path_trace = <<>>
    THEN Effect({}, TRUE)                  \* path_trace.last().unwrap()
    ELSE LET sender_id == Last(pkt.path_trace)[1]
         IN  IF sender_id \in neighbors[n]
             THEN Effect({[to |-> sender_id, pkt |-> FloodResponseFor(n, pkt)]}, FALSE)
             ELSE Effect({}, FALSE)

BroadcastToAll(n, last_node) == neighbors[n]

\* lines 204-209: every registry entry but the one keyed by last_node
BroadcastTargets(n, last_node) == neighbors[n] \ {last_node}

\* lines 195-220: the flood id is not in Flood Memory
UnseenBranch(n, pkt) ==
    IF pkt.path_trace = <<>>
    THEN Effect({}, TRUE)                  \* path_trace.last().unwrap()
    ELSE LET last_node == Last(pkt.path_trace)[1]
             new_packet == [pkt EXCEPT !.path_trace = Append(@, <<n, "Drone">>)]
         IN  Effect({[to |-> m, pkt |-> new_packet] :
                        m \in BroadcastTargets(n, last_node)}, FALSE)

\* line 157: self.flood_requests.contains(&packet.flood_id)
InFloodMemory(n, fid) == fid \in flood_requests[n]

handle_flood_req(n, pkt) ==
    IF InFloodMemory(n, pkt.flood_id) THEN SeenBranch(n, pkt) ELSE UnseenBranch(n, pkt)

\* Flood Memory after handle_flood_req: no statement of the function inserts
FloodMemoryAfter(n, pkt) == flood_requests[n]

\* -------------------------------------------------------- handle_packet
handle_packet(n, pkt) ==
    CASE pkt.pack_type \in {"Nack", "Ack", "MsgFragment"} -> Effect({}, TRUE)  \* todo!()
      [] pkt.pack_type = "FloodRequest" -> handle_flood_req(n, pkt)
      [] pkt.pack_type = "FloodResponse" -> Effect({}, FALSE)                   \* println!

\* ------------------------------------------------------- handle_command
add_neighbor_replacing(n, node_id) ==
    neighbors' = [neighbors EXCEPT ![n] = {node_id}]

\* lines 85-87: HashMap::insert under the key node_id
add_neighbor(n, node_id) ==
    neighbors' = [neighbors EXCEPT ![n] = @ \cup {node_id}]

set_packet_drop_rate(n, p) ==
    pdr' = [pdr EXCEPT ![n] = p]

make_crash(n) ==
    crashed' = [crashed EXCEPT ![n] = TRUE]

handle_command(n, cmd) ==
    CASE cmd.type = "AddSender" ->
            add_neighbor(n, cmd.arg) /\ UNCHANGED <<pdr, crashed>>
      [] cmd.type = "SetPacketDropRate" ->
            set_packet_drop_rate(n, cmd.arg) /\ UNCHANGED <<neighbors, crashed>>
      [] cmd.type = "Crash" ->
            make_crash(n) /\ UNCHANGED <<neighbors, pdr>>

\* lines 97-99: rand::thread_rng().gen_range(0.0..100.0) < self.pdr, for a
\* draw in [0, 100).  Nothing in the file calls should_drop.
Draws == {0, 50, 99}
should_drop(n, draw) == draw < pdr[n]

\* ------------------------------------------------------- forward_packet
\* A plausible slip: the received packet is sent on instead of the clone
\* whose hop index was advanced.
forward_packet_stale(n, pkt) ==
    IF pkt.hop_index >= Len(pkt.hops) THEN Effect({}, TRUE)
    ELSE IF pkt.hops[pkt.hop_index + 1] # n THEN Effect({}, TRUE)
    ELSE IF pkt.hop_index + 1 >= Len(pkt.hops) THEN Effect({}, TRUE)
    ELSE LET next_hop == pkt.hops[pkt.hop_index + 2]
         IN  IF next_hop \in neighbors[n]
             THEN Effect({[to |-> next_hop, pkt |-> pkt]}, next_hop \in rx_closed)
             ELSE Effect({}, TRUE)

\* lines 101-138.  hop_index counts from 0, so hops[hop_index] is
\* pkt.hops[pkt.hop_index + 1] here.  Indexing past the end of hops panics,
\* and so does every todo!(): a misrouted packet, the last hop, a next hop
\* that is not in the registry, a send that fails because the receiver is gone.
forward_packet(n, pkt) ==
    IF pkt.hop_index >= Len(pkt.hops) THEN Effect({}, TRUE)
    ELSE IF pkt.hops[pkt.hop_index + 1] # n THEN Effect({}, TRUE)
    ELSE IF pkt.hop_index + 1 >= Len(pkt.hops) THEN Effect({}, TRUE)
    ELSE LET next_hop == pkt.hops[pkt.hop_index + 2]
             new_packet == [pkt EXCEPT !.hop_index = @ + 1]
         IN  IF next_hop \in neighbors[n]
             THEN Effect({[to |-> next_hop, pkt |-> new_packet]}, next_hop \in rx_closed)
             ELSE Effect({}, TRUE)

\* ------------------------------------------------------------------ run
\* select_biased!: the first ready operation in textual order is taken.  A
\* recv is ready when its channel holds a message or is disconnected.
SelectPacketFirst(cmdReady, pktReady) ==
    IF pktReady THEN "packet" ELSE IF cmdReady THEN "command" ELSE "blocked"

SelectBiased(cmdReady, pktReady) ==
    IF cmdReady THEN "command" ELSE IF pktReady THEN "packet" ELSE "blocked"

CommandReady(n) == controller_recv[n] # <<>> \/ ~controller_open[n]
PacketReady(n) == packet_recv[n] # <<>>

Selected(n) == SelectBiased(CommandReady(n), PacketReady(n))

LoopNotLeftByCrash(st) == st \in {"running", "crashed"}

\* the loop of run is still iterating: it has not been left by break or panic
LoopRunning(st) == st = "running"

\* lines 44-47: Crash leaves the loop before handle_command is reached
BreaksLoop(cmd) == cmd.type = "Crash"

\* One iteration of a run loop, as seen from outside: the item taken, the
\* sends attempted, whether it ended in a panic, and what the drone's channels
\* and registry held when the item was selected.
Op(n, kind, cmd, pkt, eff) ==
    [node |-> n, kind |-> kind, cmd |-> cmd, pkt |-> pkt,
     outs |-> eff.outs, panic |-> eff.panic,
     pkt_waiting |-> PacketReady(n), registry |-> neighbors[n]]

NoEffect == Effect({}, FALSE)

\* channel.send(p) for every attempted send: the packet is appended to the
\* receiving drone's packet channel unless its receiver is gone.  The inbox of
\* a node that does not run this code is not part of the state.
Deliver(outs) ==
    [m \in Nodes |->
        IF status[m] # "foreign" /\ m \notin rx_closed
           /\ \E o \in outs : o.to = m
        THEN Append(packet_recv[m], (CHOOSE o \in outs : o.to = m).pkt)
        ELSE packet_recv[m]]

\* lines 42-50, a command is received
RunCommand(n) ==
    /\ LoopRunning(status[n])
    /\ Selected(n) = "command"
    /\ controller_recv[n] # <<>>
    /\ LET cmd == Head(controller_recv[n])
       IN  /\ controller_recv' = [controller_recv EXCEPT ![n] = Tail(@)]
           /\ lastOp' = Op(n, "command", cmd, NoPacket, NoEffect)
           /\ IF BreaksLoop(cmd)
              THEN /\ status' = [status EXCEPT ![n] = "crashed"]
                   /\ UNCHANGED <<neighbors, pdr, crashed>>
              ELSE /\ handle_command(n, cmd)
                   /\ UNCHANGED status
    /\ UNCHANGED <<flood_requests, controller_open, packet_recv, rx_closed, handled>>

\* lines 42-50, recv on the disconnected, empty command channel returns Err
RunCommandErr(n) ==
    /\ LoopRunning(status[n])
    /\ Selected(n) = "command"
    /\ controller_recv[n] = <<>>
    /\ lastOp' = Op(n, "disconnected", NoCommand, NoPacket, NoEffect)
    /\ UNCHANGED <<status, pdr, neighbors, flood_requests, crashed, controller_recv,
                   controller_open, packet_recv, rx_closed, handled>>

\* lines 51-55, a packet is received
RunPacket(n) ==
    /\ LoopRunning(status[n])
    /\ Selected(n) = "packet"
    /\ LET pkt == Head(packet_recv[n])
           eff == handle_packet(n, pkt)
       IN  /\ Len(pkt.path_trace) < MaxTrace
           /\ packet_recv' = [Deliver(eff.outs) EXCEPT ![n] = Tail(packet_recv[n])]
           /\ flood_requests' = [flood_requests EXCEPT ![n] =
                                    IF pkt.pack_type = "FloodRequest" /\ ~eff.panic
                                    THEN FloodMemoryAfter(n, pkt) ELSE @]
           /\ status' = [status EXCEPT ![n] = IF eff.panic THEN "panicked" ELSE @]
           /\ handled' = [handled EXCEPT ![n] =
                             IF pkt.pack_type = "FloodRequest" /\ ~eff.panic
                             THEN @ \cup {pkt.flood_id} ELSE @]
           /\ lastOp' = Op(n, "packet", NoCommand, pkt, eff)
    /\ UNCHANGED <<pdr, neighbors, crashed, controller_recv, controller_open, rx_closed>>

Run(n) == RunCommand(n) \/ RunCommandErr(n) \/ RunPacket(n)

\* forward_packet called on a running drone.  No arm of handle_packet calls
\* it, so this step belongs to FwdSpec only.
ForwardPacket(n, pkt) ==
    /\ LoopRunning(status[n])
    /\ LET eff == forward_packet(n, pkt)
       IN  /\ packet_recv' = Deliver({o \in eff.outs : ~eff.panic})
           /\ status' = [status EXCEPT ![n] = IF eff.panic THEN "panicked" ELSE @]
           /\ lastOp' = Op(n, "forward", NoCommand, pkt, eff)
    /\ UNCHANGED <<pdr, neighbors, flood_requests, crashed, controller_recv,
                   controller_open, rx_closed, handled>>

\* ---------------------------------------------------------- environment
\* The controller puts a command on n's command channel.
ControllerSend(n, cmd) ==
    /\ status[n] # "foreign"
    /\ n \notin rx_closed
    /\ controller_open[n]
    /\ Len(controller_recv[n]) < MaxCmdQ
    /\ controller_recv' = [controller_recv EXCEPT ![n] = Append(@, cmd)]
    /\ UNCHANGED <<status, pdr, neighbors, flood_requests, crashed, controller_open,
                   packet_recv, rx_closed, handled, lastOp>>

\* The controller drops its command sender.
ControllerDisconnect(n) ==
    /\ status[n] # "foreign"
    /\ controller_open[n]
    /\ controller_open' = [controller_open EXCEPT ![n] = FALSE]
    /\ UNCHANGED <<status, pdr, neighbors, flood_requests, crashed, controller_recv,
                   packet_recv, rx_closed, handled, lastOp>>

\* A neighbour puts a packet on n's packet channel.
NeighborSend(n, pkt) ==
    /\ status[n] # "foreign"
    /\ n \notin rx_closed
    /\ Len(packet_recv[n]) < MaxPktQ
    /\ packet_recv' = [packet_recv EXCEPT ![n] = Append(@, pkt)]
    /\ UNCHANGED <<status, pdr, neighbors, flood_requests, crashed, controller_recv,
                   controller_open, rx_closed, handled, lastOp>>

\* A node that is not inside run goes away: its receivers are dropped and what
\* was pending on them is lost.  Later sends to it fail.
Terminate(m) ==
    /\ m \notin rx_closed
    /\ ~LoopRunning(status[m])
    /\ rx_closed' = rx_closed \cup {m}
    /\ packet_recv' = [packet_recv EXCEPT ![m] = <<>>]
    /\ controller_recv' = [controller_recv EXCEPT ![m] = <<>>]
    /\ UNCHANGED <<status, pdr, neighbors, flood_requests, crashed, controller_open,
                   handled, lastOp>>

\* The neighbours of Me that may terminate while it runs.
Mortal == {2}

\* Commands the controller sends to n.
Commands(n) ==
    {AddSender(m) : m \in Adjacent(n)} \cup {SetPacketDropRate(p) : p \in DropRates}
        \cup {Crash}

\* Packets the neighbours of Me send to it.
FloodId == 42
SessionId == 7
FromClient == <<<<Client, "Client">>>>
InjectPackets ==
    { Packet("FloodRequest", SessionId, 0, <<>>, FloodId, FromClient),
      Packet("FloodRequest", SessionId, 0, <<>>, FloodId,
             <<<<Client, "Client">>, <<Me, "Drone">>, <<2, "Drone">>>>),
      Packet("FloodRequest", SessionId, 0, <<>>, FloodId, <<>>),
      Packet("FloodResponse", SessionId, 1, <<2, Me, Client>>, FloodId,
             <<<<Client, "Client">>, <<Me, "Drone">>, <<2, "Drone">>>>),
      Packet("MsgFragment", SessionId, 1, <<Client, Me, 2>>, 0, <<>>) }

\* ------------------------------------------------------- specifications
NoOp == [node |-> Client, kind |-> "none", cmd |-> NoCommand, pkt |-> NoPacket,
         outs |-> {}, panic |-> FALSE, pkt_waiting |-> FALSE, registry |-> {}]

\* RustafarianDrone::new for every drone in `started`, with `memory` as the
\* content of flood_requests
InitState(started, inbox, memory) ==
    /\ status = [n \in Nodes |-> IF n \in started THEN "running" ELSE "foreign"]
    /\ pdr = [n \in Nodes |-> InitialPdr]
    /\ neighbors = [n \in Nodes |-> {}]
    /\ flood_requests = [n \in Nodes |-> IF n \in started THEN memory ELSE {}]
    /\ crashed = [n \in Nodes |-> FALSE]
    /\ controller_recv = [n \in Nodes |-> <<>>]
    /\ controller_open = [n \in Nodes |-> TRUE]
    /\ packet_recv = [n \in Nodes |-> IF n = Me THEN inbox ELSE <<>>]
    /\ rx_closed = {}
    /\ handled = [n \in Nodes |-> {}]
    /\ lastOp = NoOp

\* lines 26-37: flood_requests: HashSet::new()
InitWith(started, inbox) == InitState(started, inbox, {})

Init == InitWith({Me}, <<>>)

Next ==
    \/ Run(Me)
    \/ \E cmd \in Commands(Me) : ControllerSend(Me, cmd)
    \/ ControllerDisconnect(Me)
    \/ \E pkt \in InjectPackets : NeighborSend(Me, pkt)
    \/ \E m \in Mortal : Terminate(m)

Spec == Init /\ [][Next]_vars

\* The network: three drones in a cycle, the client's flood request already on
\* drone 1's packet channel, the controller adding the links one at a time.
NetInit == InitWith(Drones, <<Packet("FloodRequest", SessionId, 0, <<>>, FloodId, FromClient)>>)

Wire(n, m) ==
    /\ m \notin neighbors[n]
    /\ AddSender(m) \notin {controller_recv[n][i] : i \in 1..Len(controller_recv[n])}
    /\ ControllerSend(n, AddSender(m))

NetNext ==
    \/ \E n \in Drones : Run(n)
    \/ \E n \in Drones : \E m \in Adjacent(n) : Wire(n, m)
    \/ \E n \in Drones : ControllerDisconnect(n)

NetSpec == NetInit /\ [][NetNext]_vars

\* forward_packet as a function of the drone and a packet: the controller
\* builds the registry, a neighbour may terminate, and forward_packet is
\* called with packets that cover each of its branches.
Fragment(hi, hs) == Packet("MsgFragment", SessionId, hi, hs, 0, <<>>)
ForwardPackets ==
    { Fragment(1, <<Client, Me, 2>>),
      Fragment(1, <<Client, Me, 3>>),
      Fragment(0, <<Me, Client>>),
      Fragment(1, <<3, Me, 2, Client>>),
      Fragment(1, <<Client, Me>>),
      Fragment(1, <<Client, 2, 3>>),
      Fragment(2, <<Client, Me>>),
      Packet("Ack", SessionId, 1, <<2, Me, Client>>, 0, <<>>) }

FwdNext ==
    \/ RunCommand(Me)
    \/ \E m \in Adjacent(Me) : ControllerSend(Me, AddSender(m))
    \/ \E m \in Mortal : Terminate(m)
    \/ \E pkt \in ForwardPackets : ForwardPacket(Me, pkt)

FwdSpec == Init /\ [][FwdNext]_vars

\* handle_flood_req as a function of the drone's fields and a flood request.
\* No code writes flood_requests, so a run that starts from new() never enters
\* the branch of lines 157-194; here the content of Flood Memory is an input,
\* drawn when the drone is built, and both branches are exercised.
FloodPackets ==
    {p \in InjectPackets : p.pack_type = "FloodRequest"}
        \cup {Packet("FloodRequest", SessionId + 1, 0, <<>>, FloodId + 1, FromClient)}

FloodInit == \E memory \in SUBSET {FloodId} : InitState({Me}, <<>>, memory)

FloodNext ==
    \/ RunCommand(Me)
    \/ RunPacket(Me)
    \/ \E m \in Adjacent(Me) : ControllerSend(Me, AddSender(m))
    \/ \E pkt \in FloodPackets : NeighborSend(Me, pkt)
    \/ \E m \in Mortal : Terminate(m)

FloodSpec == FloodInit /\ [][FloodNext]_vars

\* =============================================================== claims
\* What a step did to n's channels.
PacketTaken(n) == Len(packet_recv'[n]) < Len(packet_recv[n])
CommandTaken(n) == Len(controller_recv'[n]) < Len(controller_recv[n])
Iterates(n) == status[n] = "running" /\ (PacketTaken(n) \/ CommandTaken(n))
HandlesFloodRequest(n) ==
    /\ status[n] = "running"
    /\ PacketTaken(n)
    /\ Head(packet_recv[n]).pack_type = "FloodRequest"
Targets(outs) == {o.to : o \in outs}
FloodRequestsIn(outs) == {o \in outs : o.pkt.pack_type = "FloodRequest"}
FloodResponsesIn(outs) == {o \in outs : o.pkt.pack_type = "FloodResponse"}

\* C1: when a command and a packet are both pending as a drone starts an
\* iteration, the iteration takes the command (the head of the command
\* channel) and leaves the packet channel alone; a packet is never taken
\* while a command is pending.
C1_CommandFirst ==
    [][\A n \in Drones :
          (Iterates(n) /\ controller_recv[n] # <<>> /\ packet_recv[n] # <<>>)
          => /\ ~PacketTaken(n)
             /\ controller_recv'[n] = Tail(controller_recv[n])
             /\ lastOp'.node = n
             /\ lastOp'.kind = "command"
             /\ lastOp'.cmd = Head(controller_recv[n])]_vars

\* C1 witness: a command has just been processed that was selected while a
\* packet was waiting, and the packet is still there.
C1_Witness ==
    /\ lastOp.node = Me
    /\ lastOp.kind = "command"
    /\ lastOp.pkt_waiting
    /\ packet_recv[Me] # <<>>

\* C2: once a drone has processed Crash its loop has terminated: it takes no
\* further command or packet, sends nothing and changes none of its fields,
\* whatever is pending or gets enqueued.
C2_NothingAfterCrash ==
    [][\A n \in Drones :
          status[n] = "crashed"
          => /\ status'[n] = "crashed"
             /\ ~PacketTaken(n) /\ ~CommandTaken(n)
             /\ (lastOp' # lastOp => lastOp'.node # n)
             /\ neighbors'[n] = neighbors[n] /\ pdr'[n] = pdr[n]
             /\ flood_requests'[n] = flood_requests[n]
             /\ crashed'[n] = crashed[n]]_vars

\* C2 witness: the drone has processed Crash, and a flood request and a
\* command are pending on its channels.
C2_Witness ==
    /\ status[Me] = "crashed"
    /\ lastOp.kind = "command" /\ lastOp.cmd = Crash
    /\ packet_recv[Me] # <<>> /\ Head(packet_recv[Me]).pack_type = "FloodRequest"
    /\ controller_recv[Me] # <<>>

\* C3: the crashed flag is true exactly in the states in which the loop has
\* been left because of a Crash command.
C3_CrashSetsFlag ==
    \A n \in Drones : crashed[n] <=> (status[n] = "crashed")

\* C4: a flood request with a non-empty path trace whose flood id is not in
\* Flood Memory on entry is sent exactly once to every registry entry other
\* than the last node of the incoming trace, to nobody else, and every copy
\* carries the incoming trace with (this node, Drone) appended.
C4_BroadcastExceptSender ==
    [][\A n \in Drones :
          (/\ HandlesFloodRequest(n)
           /\ Head(packet_recv[n]).flood_id \notin flood_requests[n]
           /\ Head(packet_recv[n]).path_trace # <<>>)
          => LET pkt == Head(packet_recv[n])
                 others == neighbors[n] \ {Last(pkt.path_trace)[1]}
             IN  /\ lastOp'.node = n /\ lastOp'.pkt = pkt
                 /\ Targets(lastOp'.outs) = others
                 /\ Cardinality(lastOp'.outs) = Cardinality(others)
                 /\ \A o \in lastOp'.outs :
                       /\ o.pkt.pack_type = "FloodRequest"
                       /\ o.pkt.flood_id = pkt.flood_id
                       /\ o.pkt.path_trace = Append(pkt.path_trace, <<n, "Drone">>)
                       /\ Len(o.pkt.path_trace) = Len(pkt.path_trace) + 1]_vars

\* C4 witness: the scenario of the specification: the registry holds the
\* client and drones 2 and 3, the client's flood request was handled, and
\* copies went to 2 and 3 only.
C4_Witness ==
    /\ lastOp.node = Me /\ lastOp.kind = "packet"
    /\ lastOp.pkt.pack_type = "FloodRequest"
    /\ lastOp.pkt.path_trace = FromClient
    /\ lastOp.registry = {Client, 2, 3}
    /\ Targets(lastOp.outs) = {2, 3}

\* C5: once a drone has handled a flood request with flood id F, F is in its
\* Flood Memory, in that state and ever after.
C5_FloodIdRecorded ==
    \A n \in Drones : handled[n] \subseteq flood_requests[n]

C7_BroadcastOnce ==
    [][\A n \in Drones :
          (/\ HandlesFloodRequest(n)
           /\ Head(packet_recv[n]).flood_id \in handled[n]
           /\ Head(packet_recv[n]).path_trace # <<>>)
          => /\ FloodRequestsIn(lastOp'.outs) = {}
             /\ (Last(Head(packet_recv[n]).path_trace)[1] \in neighbors[n]
                   => FloodResponsesIn(lastOp'.outs) # {})]_vars

\* C8: loop suppression: one flood round in a network with a cycle dies out.
\* Every node forwards the round's request at most once, so no request in
\* flight has made more hops than the network has nodes.
InFlight(n) == {packet_recv[n][i] : i \in 1..Len(packet_recv[n])}
C8_FloodRoundDiesOut ==
    \A n \in Drones : \A p \in InFlight(n) :
        p.pack_type = "FloodRequest" => Len(p.path_trace) <= Cardinality(Nodes)

\* C9: a drone whose registry holds only the neighbour an unseen flood request
\* arrived from answers that neighbour with the flood response it would send
\* for a seen flood id.
C9_LeafTurnsFloodAround ==
    [][\A n \in Drones :
          (/\ HandlesFloodRequest(n)
           /\ Head(packet_recv[n]).flood_id \notin flood_requests[n]
           /\ Head(packet_recv[n]).path_trace # <<>>
           /\ neighbors[n] = {Last(Head(packet_recv[n]).path_trace)[1]})
          => LET pkt == Head(packet_recv[n])
             IN  lastOp'.outs = {[to |-> Last(pkt.path_trace)[1],
                                  pkt |-> FloodResponseFor(n, pkt)]}]_vars

\* C10: a flood response that finds this drone at hops[hop_index], with a
\* further hop that is in the registry, is sent on to that hop with hop_index
\* advanced by one.
C10_FloodResponseForwarded ==
    [][\A n \in Drones :
          (/\ status[n] = "running" /\ PacketTaken(n)
           /\ Head(packet_recv[n]).pack_type = "FloodResponse"
           /\ Head(packet_recv[n]).hop_index + 2 <= Len(Head(packet_recv[n]).hops)
           /\ Head(packet_recv[n]).hops[Head(packet_recv[n]).hop_index + 1] = n
           /\ Head(packet_recv[n]).hops[Head(packet_recv[n]).hop_index + 2] \in neighbors[n])
          => LET pkt == Head(packet_recv[n])
             IN  lastOp'.outs = {[to |-> pkt.hops[pkt.hop_index + 2],
                                  pkt |-> [pkt EXCEPT !.hop_index = @ + 1]]}]_vars

\* C11: forward_packet, given a packet that has this drone at hops[hop_index],
\* a further hop, and that hop in the registry with its receiver alive, sends
\* exactly one packet, to that hop only: the packet received with hop_index
\* one higher and hops, session id and payload as they were; the drone stays
\* running.
C11_ForwardOneHop ==
    (/\ lastOp.kind = "forward"
     /\ lastOp.pkt.hop_index + 2 <= Len(lastOp.pkt.hops)
     /\ lastOp.pkt.hops[lastOp.pkt.hop_index + 1] = lastOp.node
     /\ lastOp.pkt.hops[lastOp.pkt.hop_index + 2] \in lastOp.registry
     /\ lastOp.pkt.hops[lastOp.pkt.hop_index + 2] \notin rx_closed)
    => /\ ~lastOp.panic
       /\ Cardinality(lastOp.outs) = 1
       /\ \A o \in lastOp.outs :
             /\ o.to = lastOp.pkt.hops[lastOp.pkt.hop_index + 2]
             /\ o.pkt.hop_index = lastOp.pkt.hop_index + 1
             /\ o.pkt.hops = lastOp.pkt.hops
             /\ o.pkt.session_id = lastOp.pkt.session_id
             /\ o.pkt.pack_type = lastOp.pkt.pack_type
             /\ o.pkt.flood_id = lastOp.pkt.flood_id
             /\ o.pkt.path_trace = lastOp.pkt.path_trace

\* C11 witness: with the client and drones 2 and 3 in the registry, a
\* fragment routed client -> this drone -> 2 was forwarded to 2 alone.
C11_Witness ==
    /\ lastOp.kind = "forward" /\ lastOp.node = Me
    /\ lastOp.pkt = Fragment(1, <<Client, Me, 2>>)
    /\ lastOp.registry = {Client, 2, 3}
    /\ ~lastOp.panic
    /\ Targets(lastOp.outs) = {2}

\* C12: Crash is the only thing that stops a drone: no packet of any kind
\* makes its loop halt or fault.
C12_OnlyCrashStops ==
    \A n \in Drones : status[n] # "panicked"

\* A fragment that this drone can forward: it is at hops[hop_index], a further
\* hop follows, and that hop is in the registry with its receiver alive.
Routable(n, pkt) ==
    /\ pkt.hop_index + 2 <= Len(pkt.hops)
    /\ pkt.hops[pkt.hop_index + 1] = n
    /\ pkt.hops[pkt.hop_index + 2] \in neighbors[n]
    /\ pkt.hops[pkt.hop_index + 2] \notin rx_closed

\* C13: with drop probability 0 no draw drops a fragment and every routable
\* fragment is forwarded to its next hop; with drop probability 100 every
\* draw drops it and none is forwarded.
C13_DropRateBoundary ==
    [][\A n \in Drones :
          (/\ status[n] = "running" /\ PacketTaken(n)
           /\ Head(packet_recv[n]).pack_type = "MsgFragment"
           /\ Routable(n, Head(packet_recv[n])))
          => LET pkt == Head(packet_recv[n])
             IN  /\ pdr[n] = 0 =>
                       /\ \A d \in Draws : ~should_drop(n, d)
                       /\ lastOp'.outs = {[to |-> pkt.hops[pkt.hop_index + 2],
                                           pkt |-> [pkt EXCEPT !.hop_index = @ + 1]]}
                 /\ pdr[n] = 100 =>
                       /\ \A d \in Draws : should_drop(n, d)
                       /\ lastOp'.outs = {}]_vars

\* C14: the drop probability of a drone is within [0, 100] in every state.
C14_DropRateInRange ==
    \A n \in Drones : 0 <= pdr[n] /\ pdr[n] <= 100

\* C15: a drone whose command channel is disconnected and drained, and that
\* has a packet pending, can take that packet: the dead command channel does
\* not keep the loop from the packet channel.
C15_PacketsNotStarved ==
    \A n \in Drones :
        (/\ status[n] = "running"
         /\ ~controller_open[n] /\ controller_recv[n] = <<>>
         /\ packet_recv[n] # <<>>)
        => ENABLED RunPacket(n)

\* C16: only commands change a drone's configuration.  A step that takes a
\* packet leaves the registry and the drop probability as they were; the
\* registry changes only by an AddSender command, which adds its key and
\* removes none; the drop probability changes only by a SetPacketDropRate
\* command.
C16_OnlyCommandsConfigure ==
    [][\A n \in Drones :
          /\ PacketTaken(n) => (neighbors'[n] = neighbors[n] /\ pdr'[n] = pdr[n])
          /\ neighbors[n] \subseteq neighbors'[n]
          /\ neighbors'[n] # neighbors[n]
                => /\ CommandTaken(n)
                   /\ Head(controller_recv[n]).type = "AddSender"
                   /\ neighbors'[n] = neighbors[n] \cup {Head(controller_recv[n]).arg}
          /\ pdr'[n] # pdr[n]
                => /\ CommandTaken(n)
                   /\ Head(controller_recv[n]).type = "SetPacketDropRate"]_vars

\* C16 witness: commands have filled the registry and set the drop rate, and
\* the flood request handled last, which was broadcast, left both in place.
C16_Witness ==
    /\ lastOp.node = Me /\ lastOp.kind = "packet"
    /\ lastOp.pkt.pack_type = "FloodRequest"
    /\ lastOp.outs # {}
    /\ lastOp.registry = {Client, 2, 3}
    /\ neighbors[Me] = {Client, 2, 3}
    /\ pdr[Me] # InitialPdr

\* C17: every flood response a drone emits has hop_index 1, the drone's own id
\* at hops[0] and the node it is sent to at hops[1] (so the receiver finds
\* itself at hops[hop_index]), and carries the flood id and the session id of
\* the flood request that triggered it.
C17_ResponseHeader ==
    \A o \in FloodResponsesIn(lastOp.outs) :
        /\ lastOp.kind = "packet" /\ lastOp.pkt.pack_type = "FloodRequest"
        /\ o.pkt.hop_index = 1
        /\ Len(o.pkt.hops) >= 2
        /\ o.pkt.hops[1] = lastOp.node
        /\ o.pkt.hops[2] = o.to
        /\ o.pkt.hops[o.pkt.hop_index + 1] = o.to
        /\ o.pkt.flood_id = lastOp.pkt.flood_id
        /\ o.pkt.session_id = lastOp.pkt.session_id

\* C17 witness: the client's flood request, its flood id in Flood Memory, was
\* answered with a flood response to the client.
C17_Witness ==
    /\ lastOp.node = Me /\ lastOp.kind = "packet"
    /\ lastOp.pkt.path_trace = FromClient
    /\ \E o \in lastOp.outs : o.pkt.pack_type = "FloodResponse" /\ o.to = Client

\* C18: when the flood id is in Flood Memory and the last node of the trace is
\* not in the registry, or its receiver is gone, the response is lost: no
\* other node is sent anything, nothing is delivered, the registry, Flood
\* Memory and the drop probability stay as they were, and the drone keeps
\* running.
C18_LostResponse ==
    [][\A n \in Drones :
          (/\ HandlesFloodRequest(n)
           /\ Head(packet_recv[n]).flood_id \in flood_requests[n]
           /\ Head(packet_recv[n]).path_trace # <<>>
           /\ \/ Last(Head(packet_recv[n]).path_trace)[1] \notin neighbors[n]
              \/ Last(Head(packet_recv[n]).path_trace)[1] \in rx_closed)
          => /\ Targets(lastOp'.outs) \subseteq {Last(Head(packet_recv[n]).path_trace)[1]}
             /\ \A m \in Nodes \ {n} : packet_recv'[m] = packet_recv[m]
             /\ neighbors'[n] = neighbors[n]
             /\ flood_requests'[n] = flood_requests[n]
             /\ pdr'[n] = pdr[n]
             /\ ~lastOp'.panic
             /\ status'[n] = "running"]_vars

\* C18 witness: a flood request whose flood id is in Flood Memory came from
\* drone 2, which is not in the registry while other nodes are; nothing was
\* sent and the drone is running.
C18_Witness ==
    /\ lastOp.node = Me /\ lastOp.kind = "packet"
    /\ lastOp.pkt.pack_type = "FloodRequest"
    /\ lastOp.pkt.flood_id \in flood_requests[Me]
    /\ lastOp.pkt.path_trace # <<>>
    /\ Last(lastOp.pkt.path_trace)[1] = 2
    /\ lastOp.registry = {Client, 3}
    /\ lastOp.outs = {}
    /\ status[Me] = "running"

\* C19: the path trace is append-only: in every flood request and flood
\* response a drone emits, the incoming trace is a prefix of the outgoing one
\* and the one entry added is (this drone, Drone).
C19_TraceAppendOnly ==
    \A o \in lastOp.outs :
        (lastOp.kind = "packet" /\ o.pkt.pack_type \in {"FloodRequest", "FloodResponse"})
        => /\ Len(o.pkt.path_trace) = Len(lastOp.pkt.path_trace) + 1
           /\ SubSeq(o.pkt.path_trace, 1, Len(lastOp.pkt.path_trace)) = lastOp.pkt.path_trace
           /\ Last(o.pkt.path_trace) = <<lastOp.node, "Drone">>

\* C19 witness: a flood response was emitted for a request that had already
\* visited three nodes; its trace has four entries.
C19_Witness ==
    /\ lastOp.kind = "packet"
    /\ Len(lastOp.pkt.path_trace) = 3
    /\ \E o \in lastOp.outs :
          o.pkt.pack_type = "FloodResponse" /\ Len(o.pkt.path_trace) = 4

\* C20: in a network of drones no flood request in flight has the same node
\* id twice in its path trace: a drone that is already in the trace of a
\* flood does not append itself again.
C20_NoNodeTwiceInTrace ==
    \A n \in Nodes : \A p \in InFlight(n) :
        p.pack_type = "FloodRequest"
        => \A i \in 1..Len(p.path_trace) : \A j \in 1..Len(p.path_trace) :
              i # j => p.path_trace[i][1] # p.path_trace[j][1]

====
